---- MODULE Spec2Model ----
(***************************************************************************)
(* Model of monitor.py: main() and HyperliquidMonitor (get_account_info,   *)
(* get_positions, get_account_value, display_positions,                    *)
(* plot_account_value, monitor).                                           *)
(*                                                                         *)
(* Text is a tuple of one-character strings, a JSON object is a function   *)
(* from its keys, decimals are integers counting hundredths, and the wall  *)
(* clock (datetime.now(), time.time()) is an integer count of seconds.     *)
(***************************************************************************)
EXTENDS Integers, Sequences, FiniteSets, TLC

VARIABLES
    pc,              \* position of the single thread of control
    now,             \* wall clock, seconds
    account_address, \* main: account_address / self.account_address
    answer,          \* main: what input() returned to the format warning
    response,        \* the remote service's reply to the request in progress
    data,            \* result of the last get_account_info()
    positions,       \* monitor: positions
    total_value,     \* display_positions: total_value
    equity_history,  \* self.equity_history
    last_plot_time,  \* monitor: last_plot_time
    current_time,    \* monitor: current_time
    tick,            \* number of loop iterations started
    requests,        \* HTTP requests sent since the current tick began
    plot_times,      \* current_time of every periodic plot_account_value call
    final_renders,   \* plot_account_value calls made by the except branch
    artifacts,       \* the chart files written: name (timestamp), statistics
    evicted,         \* number of samples dropped from equity_history so far
    exc,             \* exception that ended the program, "none" otherwise
    interval         \* monitor: update_interval

vars == <<pc, now, account_address, answer, response, data, positions,
          total_value, equity_history, last_plot_time, current_time, tick,
          requests, plot_times, final_renders, artifacts, evicted, exc,
          interval>>

----------------------------------------------------------------------------
(* Bounds of the exploration *)

MaxTicks == 3

(* Loop iterations explored when the run starts at main() *)
MainTicks == 2

(* What time.sleep(update_interval) may take beyond update_interval: the   *)
(* call returns no earlier than asked, and later when the process or the   *)
(* machine is suspended.                                                   *)
SleepOvershoot == {0, 280, 604780}

----------------------------------------------------------------------------
(* Text *)

Digits == {"0", "1", "2", "3", "4", "5", "6", "7", "8", "9"}

DigitVal(c) ==
    CASE c = "0" -> 0 [] c = "1" -> 1 [] c = "2" -> 2 [] c = "3" -> 3
      [] c = "4" -> 4 [] c = "5" -> 5 [] c = "6" -> 6 [] c = "7" -> 7
      [] c = "8" -> 8 [] c = "9" -> 9

Rep(c, n) == [i \in 1..n |-> c]

(* str.strip(): leading and trailing whitespace removed *)
RECURSIVE LStrip(_)
LStrip(s) == IF s # <<>> /\ Head(s) = " " THEN LStrip(Tail(s)) ELSE s

RECURSIVE RStrip(_)
RStrip(s) ==
    IF s # <<>> /\ s[Len(s)] = " " THEN RStrip(SubSeq(s, 1, Len(s) - 1)) ELSE s

Strip(s) == RStrip(LStrip(s))

(* str.lower() on the letters the inputs use *)
LowerChar(c) ==
    CASE c = "Y" -> "y" [] c = "N" -> "n" [] c = "E" -> "e" [] c = "S" -> "s"
      [] OTHER -> c

Lower(s) == [i \in 1..Len(s) |-> LowerChar(s[i])]

StartsWith(s, p) == Len(s) >= Len(p) /\ SubSeq(s, 1, Len(p)) = p

----------------------------------------------------------------------------
(* float(): a decimal literal, sign optional, read as hundredths.          *)
(* Anything else raises ValueError.  The literals of the model carry at    *)
(* most two fractional digits, which hundredths hold exactly.              *)

AllDigits(s) == \A i \in 1..Len(s) : s[i] \in Digits

RECURSIVE DigitsToNat(_)
DigitsToNat(s) ==
    IF s = <<>> THEN 0
    ELSE 10 * DigitsToNat(SubSeq(s, 1, Len(s) - 1)) + DigitVal(s[Len(s)])

Unsigned(s) == IF s # <<>> /\ Head(s) \in {"-", "+"} THEN Tail(s) ELSE s

DotAt(s) == {i \in 1..Len(s) : s[i] = "."}

IntPart(s) ==
    IF DotAt(s) = {} THEN s ELSE SubSeq(s, 1, (CHOOSE i \in DotAt(s) : TRUE) - 1)

FracPart(s) ==
    IF DotAt(s) = {} THEN <<>>
    ELSE SubSeq(s, (CHOOSE i \in DotAt(s) : TRUE) + 1, Len(s))

IsDecimal(s) ==
    LET u == Unsigned(s) IN
    /\ Cardinality(DotAt(u)) <= 1
    /\ AllDigits(IntPart(u)) /\ AllDigits(FracPart(u))
    /\ Len(IntPart(u)) + Len(FracPart(u)) >= 1

Hundredths(f) == DigitsToNat(SubSeq(f \o <<"0", "0">>, 1, 2))

ParseFloat(s) ==
    IF ~IsDecimal(s) THEN [ok |-> FALSE, v |-> 0]
    ELSE LET u == Unsigned(s)
             m == 100 * DigitsToNat(IntPart(u)) + Hundredths(FracPart(u))
         IN  [ok |-> TRUE, v |-> IF s # <<>> /\ Head(s) = "-" THEN 0 - m ELSE m]

Abs(x) == IF x < 0 THEN 0 - x ELSE x

----------------------------------------------------------------------------
(* Program constants *)

update_interval == 10

plot_interval == 300

StartupDelay == 2

SevenDays == 7 * 24 * 60 * 60

----------------------------------------------------------------------------
(* Inputs: what the user types and what the remote service answers *)

Addr40 == Rep("a", 40)

AddressInputs ==
    { <<>>,                                   \* nothing typed
      <<" ", " ">>,                           \* blanks only
      <<"0", "x">> \o Addr40,                 \* 0x + 40 characters
      <<" ">> \o <<"0", "x">> \o Addr40 \o <<" ">>,
      <<"0", "x", "a", "b">>,                 \* too short
      <<"1", "x">> \o Addr40 }                \* 42 characters, wrong prefix

AnswerInputs == { <<"y">>, <<"Y">>, <<"n">>, <<>>, <<"y", "e", "s">> }

EmptyObject == [k \in {} |-> 0]

Entry(coin, szi, entryPx, pnl) ==
    [position |-> [coin |-> coin, szi |-> szi, entryPx |-> entryPx,
                   unrealizedPnl |-> pnl]]

BTC == Entry("BTC", <<"2", ".", "5">>, <<"6", "0", "0", "0", "0">>,
             <<"1", "5", "0">>)

ETH == Entry("ETH", <<"0">>, <<"3", "0", "0", "0">>, <<"0">>)

SOL == Entry("SOL", <<"-", "1", ".", "5">>, <<"1", "5", "0">>,
             <<"-", "7", ".", "2", "5">>)

DOGE == [position |-> [coin |-> "DOGE", szi |-> <<"-", "0", ".", "0">>,
                       entryPx |-> <<"0", ".", "1">>]]

V1000 == <<"1", "0", "0", "0">>

V1050 == <<"1", "0", "5", "0", ".", "0">>

V900 == <<"9", "0", "0">>

Account(entries, value) ==
    [assetPositions |-> entries, marginSummary |-> [accountValue |-> value]]

WellFormed ==
    { Account(<<BTC, ETH, SOL, DOGE>>, V1000),
      Account(<<ETH>>, V1050),
      Account(<<>>, V900),
      [marginSummary |-> [accountValue |-> V1000]],     \* no assetPositions
      [assetPositions |-> <<DOGE, ETH>>],               \* no marginSummary
      [assetPositions |-> <<>>,
       marginSummary |-> [totalNtlPos |-> <<"0">>]] }   \* no accountValue

Malformed ==
    { Account(<<BTC, [type |-> "oneWay"]>>, V1000),     \* no 'position'
      Account(<<[position |-> [szi |-> <<"1">>,
                               entryPx |-> <<"1">>]]>>, V1000),
      Account(<<[position |-> [coin |-> "BTC",
                               entryPx |-> <<"1">>]]>>, V1000),
      Account(<<[position |-> [coin |-> "BTC",
                               szi |-> <<"1">>]]>>, V1000),
      Account(<<Entry("BTC", <<"a", "b", "c">>, <<"1">>, <<"0">>)>>, V1000),
      Account(<<Entry("BTC", <<"1">>, <<>>, <<"0">>)>>, V1000),
      Account(<<>>, <<"N", "/", "A">>) }

Responses ==
    { [kind |-> "Transport"],                           \* requests.post raises
      [kind |-> "NonJSON"],                             \* response.json() raises
      [kind |-> "json", body |-> [error |-> "User not found"]],
      [kind |-> "json", body |-> EmptyObject] }
    \cup { [kind |-> "json", body |-> b] : b \in WellFormed \cup Malformed }

----------------------------------------------------------------------------
(* HyperliquidMonitor *)

None == [none |-> TRUE, d |-> EmptyObject]

Some(d) == [none |-> FALSE, d |-> d]

(* Python's "not data": None and the empty dict are both falsy *)
Falsy(x) == x.none \/ DOMAIN x.d = {}

Returned(v) == [exc |-> "none", val |-> v]

Raised(e) == [exc |-> e, val |-> None]

(* lines 16-26: the try block of get_account_info on the reply r *)
TryRequest(r) ==
    CASE r.kind = "Transport" -> Raised("ConnectionError")
      [] r.kind = "NonJSON" -> Raised("JSONDecodeError")
      [] r.kind = "json" ->
            IF "error" \in DOMAIN r.body THEN Returned(None)
            ELSE Returned(Some(r.body))

(* Faulty variant: "except ValueError", which lets transport errors pass *)
ExceptValueError(e) == e \in {"JSONDecodeError"}

(* Faulty variant: a bare except, which catches the interrupt as well *)
ExceptAnything(e) == TRUE

(* line 27, "except Exception": every exception but those deriving from   *)
(* BaseException alone                                                    *)
ExceptException(e) == e \notin {"KeyboardInterrupt", "SystemExit"}

get_account_info(r) ==
    IF TryRequest(r).exc # "none" /\ ExceptException(TryRequest(r).exc)
    THEN Returned(None)
    ELSE TryRequest(r)

(* The first exception the body of the for loop raises on one entry *)
EntryExc(pos) ==
    IF "position" \notin DOMAIN pos THEN "KeyError"
    ELSE LET p == pos.position IN
         CASE "coin" \notin DOMAIN p -> "KeyError"
           [] "szi" \notin DOMAIN p -> "KeyError"
           [] ~ParseFloat(p.szi).ok -> "ValueError"
           [] "entryPx" \notin DOMAIN p -> "KeyError"
           [] ~ParseFloat(p.entryPx).ok -> "ValueError"
           [] "unrealizedPnl" \in DOMAIN p /\ ~ParseFloat(p.unrealizedPnl).ok
                -> "ValueError"
           [] OTHER -> "none"

SignedSize(pos) == ParseFloat(pos.position.szi).v

Direction(size) == IF size > 0 THEN "LONG" ELSE "SHORT"

(* Faulty variant: the size keeps its sign *)
SignedRecord(pos) ==
    LET p == pos.position
        size == SignedSize(pos)
    IN  [symbol |-> p.coin,
         size |-> size,
         direction |-> Direction(size),
         entry_price |-> ParseFloat(p.entryPx).v,
         unrealized_pnl |-> IF "unrealizedPnl" \in DOMAIN p
                            THEN ParseFloat(p.unrealizedPnl).v ELSE 0]

PositionRecord(pos) ==
    LET p == pos.position
        size == SignedSize(pos)
    IN  [symbol |-> p.coin,
         size |-> Abs(size),
         direction |-> Direction(size),
         entry_price |-> ParseFloat(p.entryPx).v,
         unrealized_pnl |-> IF "unrealizedPnl" \in DOMAIN p
                            THEN ParseFloat(p.unrealizedPnl).v ELSE 0]

IsOpen(pos) == SignedSize(pos) # 0

RECURSIVE ExtractPositions(_, _)
ExtractPositions(entries, acc) ==
    IF entries = <<>> THEN Returned(acc)
    ELSE IF EntryExc(Head(entries)) # "none"
         THEN [exc |-> EntryExc(Head(entries)), val |-> <<>>]
         ELSE ExtractPositions(Tail(entries),
                  IF IsOpen(Head(entries))
                  THEN Append(acc, PositionRecord(Head(entries))) ELSE acc)

(* get_positions, after its get_account_info() returned x *)
get_positions(x) ==
    IF Falsy(x) THEN Returned(<<>>)
    ELSE IF "assetPositions" \in DOMAIN x.d
         THEN ExtractPositions(x.d.assetPositions, <<>>)
         ELSE Returned(<<>>)

(* get_account_value: total_value of a truthy data *)
AccountValue(d) ==
    IF "marginSummary" \in DOMAIN d
    THEN IF "accountValue" \in DOMAIN d.marginSummary
         THEN IF ParseFloat(d.marginSummary.accountValue).ok
              THEN Returned(ParseFloat(d.marginSummary.accountValue).v)
              ELSE [exc |-> "ValueError", val |-> 0]
         ELSE Returned(0)
    ELSE Returned(0)

Sample(t, v) == [timestamp |-> t, value |-> v]

(* Faulty variant: the new sample is put in front of the older ones *)
RecordedFirst(history, t, v) == <<Sample(t, v)>> \o history

(* lines 69-72: the sample is appended *)
Recorded(history, t, v) == Append(history, Sample(t, v))

(* Faulty variant: ">=", which keeps a sample exactly seven days old *)
InWindowInclusive(h, t) == h.timestamp >= t - SevenDays

InWindow(h, t) == h.timestamp > t - SevenDays

KeepLastSevenDays(history, t) == SelectSeq(history, LAMBDA h : InWindow(h, t))

(* Faulty variant: one sample is taken to be enough *)
AnySample(history) == Len(history) >= 1

EnoughSamples(history) == Len(history) >= 2

(* Nearest integer to n / d, d > 0 *)
RoundDiv(n, d) == (2 * n + d) \div (2 * d)

(* Faulty variant: the change is taken relative to the latest value *)
ChangeFromLatest(history) ==
    LET first == history[1].value
        latest == history[Len(history)].value
    IN  IF latest # 0 THEN RoundDiv((latest - first) * 10000, latest) ELSE 0

(* line 156: change in percent, in hundredths as "+.2f" prints it *)
PercentChange(history) ==
    LET first == history[1].value
        latest == history[Len(history)].value
    IN  IF first # 0
        THEN IF first > 0 THEN RoundDiv((latest - first) * 10000, first)
             ELSE RoundDiv((first - latest) * 10000, 0 - first)
        ELSE 0

(* lines 145-170: the file written, named by the second it is saved in *)
Chart(history, t) ==
    [name |-> t,
     latest |-> history[Len(history)].value,
     change |-> PercentChange(history)]

RenderOutcomes == {"saved", "OSError"}

(* plot_account_value at time t; outcome is what building and saving the  *)
(* figure does when it is reached                                         *)
plot_account_value(history, t, outcome) ==
    IF ~EnoughSamples(history) THEN [exc |-> "none", files |-> <<>>]
    ELSE IF outcome = "saved"
         THEN [exc |-> "none", files |-> <<Chart(history, t)>>]
         ELSE [exc |-> outcome, files |-> <<>>]

(* Faulty variant: ">", which skips the chart at exactly plot_interval *)
PlotOverdue(cur, last) == cur - last > plot_interval

PlotDue(cur, last) == cur - last >= plot_interval

(* Faulty variant: the final chart is asked for only when it can be drawn *)
FinalChartPlottable(history) == Len(history) >= 2

FinalChartWanted(history) == history # <<>>

----------------------------------------------------------------------------
(* main() *)

(* Faulty variant: the length is not checked *)
PrefixOk(a) == StartsWith(a, <<"0", "x">>)

FormatOk(a) == StartsWith(a, <<"0", "x">>) /\ Len(a) = 42

Confirms(ans) == Lower(ans) = <<"y">>

NoReply == [kind |-> "none"]

Init ==
    /\ pc = "main"
    /\ now = 0
    /\ account_address = <<>>
    /\ answer = <<>>
    /\ response = NoReply
    /\ data = None
    /\ positions = <<>>
    /\ total_value = 0
    /\ equity_history = <<>>
    /\ last_plot_time = 0
    /\ current_time = 0
    /\ tick = 0
    /\ requests = 0
    /\ plot_times = <<>>
    /\ final_renders = 0
    /\ artifacts = <<>>
    /\ evicted = 0
    /\ exc = "none"
    /\ interval = update_interval

(* lines 215-222: the address is read and checked *)
ReadAddress ==
    /\ pc = "main"
    /\ \E typed \in AddressInputs :
         /\ account_address' = Strip(typed)
         /\ pc' = IF Strip(typed) = <<>> THEN "exited"
                  ELSE IF ~FormatOk(Strip(typed)) THEN "confirm"
                  ELSE "test_connection"
    /\ UNCHANGED <<interval, now, answer, response, data, positions, total_value,
                   equity_history, last_plot_time, current_time, tick,
                   requests, plot_times, final_renders, artifacts, evicted,
                   exc>>

(* lines 223-225: the warning is answered *)
ConfirmAddress ==
    /\ pc = "confirm"
    /\ \E typed \in AnswerInputs :
         /\ answer' = typed
         /\ pc' = IF Confirms(typed) THEN "test_connection" ELSE "exited"
    /\ UNCHANGED <<interval, now, account_address, response, data, positions,
                   total_value, equity_history, last_plot_time, current_time,
                   tick, requests, plot_times, final_renders, artifacts,
                   evicted, exc>>

(* lines 228-235: the monitor is created and the connection tested *)
TestConnection ==
    /\ pc = "test_connection"
    /\ \E r \in Responses :
         LET info == get_account_info(r) IN
         /\ response' = r
         /\ IF info.exc # "none"
            THEN /\ pc' = "crashed"
                 /\ exc' = info.exc
                 /\ data' = data
            ELSE /\ data' = info.val
                 /\ pc' = IF Falsy(info.val) THEN "exited" ELSE "connected"
                 /\ exc' = exc
    /\ UNCHANGED <<interval, now, account_address, answer, positions, total_value,
                   equity_history, last_plot_time, current_time, tick,
                   requests, plot_times, final_renders, artifacts, evicted>>

(* lines 237-241 and 176-182: time.sleep(2), monitor(10, 300) is entered *)
StartMonitor ==
    /\ pc = "connected"
    /\ now' = now + StartupDelay
    /\ last_plot_time' = now + StartupDelay
    /\ tick' = 1
    /\ requests' = 0
    /\ response' = NoReply
    /\ data' = None
    /\ pc' = "fetch_positions"
    /\ UNCHANGED <<interval, account_address, answer, positions, total_value,
                   equity_history, current_time, plot_times, final_renders,
                   artifacts, evicted, exc>>

----------------------------------------------------------------------------
(* monitor(): one iteration of the while loop, statement by statement,     *)
(* since KeyboardInterrupt can be raised between any two of them           *)

(* lines 183 and 33: get_positions() calls get_account_info() *)
GetPositionsFetch ==
    /\ pc = "fetch_positions"
    /\ \E r \in Responses :
         LET info == get_account_info(r) IN
         /\ response' = r
         /\ requests' = requests + 1
         /\ IF info.exc # "none"
            THEN /\ pc' = "crashed"
                 /\ exc' = info.exc
                 /\ data' = data
            ELSE /\ pc' = "extract"
                 /\ exc' = exc
                 /\ data' = info.val
    /\ UNCHANGED <<interval, now, account_address, answer, positions, total_value,
                   equity_history, last_plot_time, current_time, tick,
                   plot_times, final_renders, artifacts, evicted>>

(* lines 34-56 and 183: the positions are extracted and assigned *)
GetPositionsExtract ==
    /\ pc = "extract"
    /\ LET got == get_positions(data) IN
       IF got.exc # "none"
       THEN /\ pc' = "crashed"
            /\ exc' = got.exc
            /\ positions' = positions
       ELSE /\ pc' = "fetch_value"
            /\ exc' = exc
            /\ positions' = got.val
    /\ UNCHANGED <<interval, now, account_address, answer, response, data, total_value,
                   equity_history, last_plot_time, current_time, tick,
                   requests, plot_times, final_renders, artifacts, evicted>>

(* lines 82-89 and 60: display_positions prints the header and            *)
(* get_account_value() calls get_account_info()                           *)
GetAccountValueFetch ==
    /\ pc = "fetch_value"
    /\ \E r \in Responses :
         LET info == get_account_info(r) IN
         /\ response' = r
         /\ requests' = requests + 1
         /\ IF info.exc # "none"
            THEN /\ pc' = "crashed"
                 /\ exc' = info.exc
                 /\ data' = data
            ELSE /\ pc' = "append"
                 /\ exc' = exc
                 /\ data' = info.val
    /\ UNCHANGED <<interval, now, account_address, answer, positions, total_value,
                   equity_history, last_plot_time, current_time, tick,
                   plot_times, final_renders, artifacts, evicted>>

(* lines 61-72: 0 is returned for no data, else the value is read and the *)
(* sample appended                                                        *)
GetAccountValueAppend ==
    /\ pc = "append"
    /\ IF Falsy(data)
       THEN /\ total_value' = 0
            /\ pc' = "show"
            /\ UNCHANGED <<equity_history, exc>>
       ELSE LET value == AccountValue(data.d) IN
            IF value.exc # "none"
            THEN /\ pc' = "crashed"
                 /\ exc' = value.exc
                 /\ UNCHANGED <<total_value, equity_history>>
            ELSE /\ total_value' = value.val
                 /\ equity_history' = Recorded(equity_history, now, value.val)
                 /\ pc' = "prune"
                 /\ exc' = exc
    /\ UNCHANGED <<interval, now, account_address, answer, response, data, positions,
                   last_plot_time, current_time, tick, requests, plot_times,
                   final_renders, artifacts, evicted>>

(* lines 74-79: samples older than seven days are dropped *)
PruneHistory ==
    /\ pc = "prune"
    /\ equity_history' = KeepLastSevenDays(equity_history, now)
    /\ evicted' = evicted + Len(equity_history)
                    - Len(KeepLastSevenDays(equity_history, now))
    /\ pc' = "show"
    /\ UNCHANGED <<interval, now, account_address, answer, response, data, positions,
                   total_value, last_plot_time, current_time, tick, requests,
                   plot_times, final_renders, artifacts, exc>>

(* lines 90-115: the value and the position table are printed; the locals *)
(* of the calls that have returned are dead from here on                  *)
ShowPositions ==
    /\ pc = "show"
    /\ pc' = "plot_check"
    /\ response' = NoReply
    /\ data' = None
    /\ positions' = <<>>
    /\ total_value' = 0
    /\ UNCHANGED <<interval, now, account_address, answer, equity_history,
                   last_plot_time, current_time, tick, requests, plot_times,
                   final_renders, artifacts, evicted, exc>>

(* lines 187-188 *)
CheckPlotTimer ==
    /\ pc = "plot_check"
    /\ current_time' = now
    /\ pc' = IF PlotDue(now, last_plot_time) THEN "plot" ELSE "sleep"
    /\ UNCHANGED <<interval, now, account_address, answer, response, data, positions,
                   total_value, equity_history, last_plot_time, tick,
                   requests, plot_times, final_renders, artifacts, evicted,
                   exc>>

(* lines 189-192 *)
PeriodicPlot ==
    /\ pc = "plot"
    /\ plot_times' = Append(plot_times, current_time)
    /\ \E outcome \in RenderOutcomes :
         LET r == plot_account_value(equity_history, now, outcome) IN
         IF r.exc # "none"
         THEN /\ pc' = "crashed"
              /\ exc' = r.exc
              /\ UNCHANGED <<artifacts, last_plot_time>>
         ELSE /\ artifacts' = artifacts \o r.files
              /\ last_plot_time' = current_time
              /\ pc' = "sleep"
              /\ exc' = exc
    /\ UNCHANGED <<interval, now, account_address, answer, response, data, positions,
                   total_value, equity_history, current_time, tick, requests,
                   final_renders, evicted>>

(* lines 195-199 and the jump back to line 182 *)
SleepWithin(limit) ==
    /\ pc = "sleep"
    /\ tick < limit
    /\ \E late \in SleepOvershoot : now' = now + interval + late
    /\ tick' = tick + 1
    /\ requests' = 0
    /\ pc' = "fetch_positions"
    /\ UNCHANGED <<interval, account_address, answer, response, data, positions,
                   total_value, equity_history, last_plot_time, current_time,
                   plot_times, final_renders, artifacts, evicted, exc>>

Sleep == SleepWithin(MaxTicks)

FirstSleeps == SleepWithin(MainTicks)

(* Where the thread is inside the try block of get_account_info *)
FetchPcs == {"fetch_positions", "fetch_value"}

LoopPcs == FetchPcs \cup {"extract", "append", "prune", "show", "plot_check",
                          "plot", "sleep"}

(* line 201: Ctrl+C while the try block of monitor() runs.  Raised inside *)
(* get_account_info it reaches monitor() only if line 27 lets it pass.    *)
(* The calls in progress are unwound and their locals are gone.           *)
KeyboardInterrupt ==
    /\ pc \in LoopPcs
    /\ pc \in FetchPcs => ~ExceptException("KeyboardInterrupt")
    /\ pc' = "except"
    /\ response' = NoReply
    /\ data' = None
    /\ positions' = <<>>
    /\ total_value' = 0
    /\ UNCHANGED <<interval, now, account_address, answer, equity_history,
                   last_plot_time, current_time, tick, requests, plot_times,
                   final_renders, artifacts, evicted, exc>>

(* lines 202-206 *)
FinalChart ==
    /\ pc = "except"
    /\ IF FinalChartWanted(equity_history)
       THEN /\ final_renders' = final_renders + 1
            /\ \E outcome \in RenderOutcomes :
                 LET r == plot_account_value(equity_history, now, outcome) IN
                 IF r.exc # "none"
                 THEN /\ pc' = "crashed"
                      /\ exc' = r.exc
                      /\ artifacts' = artifacts
                 ELSE /\ artifacts' = artifacts \o r.files
                      /\ pc' = "stopped"
                      /\ exc' = exc
       ELSE /\ pc' = "stopped"
            /\ UNCHANGED <<final_renders, artifacts, exc>>
    /\ UNCHANGED <<interval, now, account_address, answer, response, data, positions,
                   total_value, equity_history, last_plot_time, current_time,
                   tick, requests, plot_times, evicted>>

(* One iteration of the loop up to its sleep, and the except branch *)
Iteration ==
    \/ GetPositionsFetch
    \/ GetPositionsExtract
    \/ GetAccountValueFetch
    \/ GetAccountValueAppend
    \/ PruneHistory
    \/ ShowPositions
    \/ CheckPlotTimer
    \/ PeriodicPlot
    \/ KeyboardInterrupt
    \/ FinalChart

(* The program from main() on *)
Next ==
    \/ ReadAddress
    \/ ConfirmAddress
    \/ TestConnection
    \/ StartMonitor
    \/ Iteration
    \/ FirstSleeps

Spec == Init /\ [][Next]_vars

(* monitor(i, 300) entered for a well-formed address *)
MonitorEntered(i) ==
    /\ pc = "fetch_positions"
    /\ now = StartupDelay
    /\ account_address = <<"0", "x">> \o Addr40
    /\ answer = <<>>
    /\ response = NoReply
    /\ data = None
    /\ positions = <<>>
    /\ total_value = 0
    /\ equity_history = <<>>
    /\ last_plot_time = StartupDelay
    /\ current_time = 0
    /\ tick = 1
    /\ requests = 0
    /\ plot_times = <<>>
    /\ final_renders = 0
    /\ artifacts = <<>>
    /\ evicted = 0
    /\ exc = "none"
    /\ interval = i

(* monitor(10, 300) as main() enters it: the state StartMonitor leaves *)
InitMonitor == MonitorEntered(update_interval)

NextMonitor ==
    \/ Iteration
    \/ Sleep

SpecMonitor == InitMonitor /\ [][NextMonitor]_vars

(* Poll intervals of days: half the seven days kept, and one that does   *)
(* not divide them                                                        *)
LongIntervals == {SevenDays \div 2, 400000}

(* monitor(i, 300) called with a long update_interval *)
InitLongInterval == \E i \in LongIntervals : MonitorEntered(i)

SpecLongInterval == InitLongInterval /\ [][NextMonitor]_vars

TypeOK ==
    /\ pc \in {"main", "confirm", "test_connection", "connected", "exited",
               "crashed", "except", "stopped"} \cup LoopPcs
    /\ tick \in 0..MaxTicks
    /\ requests \in 0..2
    /\ final_renders \in 0..1
    /\ Len(equity_history) <= MaxTicks

----------------------------------------------------------------------------
(* Properties *)

(* A reply that get_account_info must turn into None *)
FetchFailed(r) ==
    \/ r.kind \in {"Transport", "NonJSON"}
    \/ r.kind = "json" /\ "error" \in DOMAIN r.body

(* The k-th smallest element of a set of indices *)
Kth(S, k) == CHOOSE i \in S : Cardinality({j \in S : j <= i}) = k

(* C1: a fetch that fails (exception, non-JSON body, 'error' field) makes  *)
(* get_account_info return None and the iteration go on: get_positions    *)
(* yields no positions, get_account_value yields 0 and leaves the history *)
(* alone, and a sleep that is not interrupted is followed, update_interval*)
(* or more later, by the fetch of the next iteration.                     *)
C1_FetchFailureContinues ==
    [][ /\ (pc \in FetchPcs /\ pc' # "except" /\ FetchFailed(response'))
             => /\ pc' = IF pc = "fetch_positions" THEN "extract" ELSE "append"
                /\ data'.none
                /\ exc' = "none"
        /\ (pc = "extract" /\ pc' # "except" /\ FetchFailed(response))
             => pc' = "fetch_value" /\ positions' = <<>>
        /\ (pc = "append" /\ pc' # "except" /\ FetchFailed(response))
             => /\ pc' = "show"
                /\ total_value' = 0
                /\ equity_history' = equity_history
        /\ (pc = "sleep" /\ pc' # "except")
             => /\ pc' = "fetch_positions"
                /\ tick' = tick + 1
                /\ now' >= now + 10 ]_vars

(* Third iteration reached although no fetch for the value ever gave data *)
C1_Witness ==
    /\ tick = 3
    /\ pc = "extract"
    /\ FetchFailed(response)
    /\ equity_history = <<>>
    /\ evicted = 0

(* C2: a reply of unexpected shape never ends monitor() *)
C2_MalformedIsRecoverable ==
    ~(pc = "crashed" /\ response.kind = "json" /\ response.body \in Malformed)

(* C3: Ctrl+C can be raised at every statement of the loop; once it is,   *)
(* no iteration and no request follows, the except branch calls           *)
(* plot_account_value once if equity_history is non-empty and not at all  *)
(* if it is empty, and nothing happens after that.                        *)
C3_StopSignalStops ==
    [][ /\ pc \in LoopPcs => ENABLED KeyboardInterrupt
        /\ pc' = "except"
             => tick' = tick /\ equity_history' = equity_history
        /\ pc = "except"
             => /\ pc' \in {"stopped", "crashed"}
                /\ tick' = tick /\ requests' = requests
                /\ equity_history' = equity_history
                /\ plot_times' = plot_times
                /\ final_renders' = IF equity_history = <<>> THEN 0 ELSE 1
        /\ pc # "stopped" ]_vars

(* Stopped with a single sample: the final render was still attempted *)
C3_Witness ==
    /\ pc = "stopped"
    /\ final_renders = 1
    /\ Len(equity_history) = 1

(* C4: a failing periodic render never ends monitor() *)
C4_RenderFailureIsContained ==
    ~(pc = "crashed" /\ exc = "OSError" /\ final_renders = 0)

(* C5: get_account_value appends its sample at the tail, and the pruning  *)
(* that follows leaves no sample stamped at or before now - 7 days and    *)
(* keeps every sample inside the window, in the order held before.        *)
C5_EvictionKeepsWindow ==
    [][ /\ (pc = "append" /\ pc' = "prune")
             => /\ Len(equity_history') = Len(equity_history) + 1
                /\ SubSeq(equity_history', 1, Len(equity_history))
                     = equity_history
                /\ equity_history'[Len(equity_history')].timestamp = now
        /\ (pc = "prune" /\ pc' = "show")
             => LET held == equity_history
                    kept == equity_history'
                    inside == {i \in 1..Len(held) :
                                 held[i].timestamp > now - 604800}
                IN  /\ \A j \in 1..Len(kept) :
                         ~(kept[j].timestamp <= now - 604800)
                    /\ Len(kept) = Cardinality(inside)
                    /\ \A k \in 1..Len(kept) : kept[k] = held[Kth(inside, k)]
      ]_vars

(* A sample was evicted and two samples remain after the pruning *)
C5_Witness ==
    /\ pc = "show"
    /\ evicted >= 1
    /\ Len(equity_history) = 2

(* C6: one request has been sent when an iteration reaches its sleep *)
C6_OneRequestPerTick == pc = "sleep" => requests = 1

LastInvocation ==
    IF plot_times = <<>> THEN StartupDelay ELSE plot_times[Len(plot_times)]

(* C7: an iteration that reaches the timer check calls the renderer       *)
(* exactly when 300 s or more have passed since the previous periodic     *)
(* call (since the start of the loop if there was none), whatever was     *)
(* fetched; last_plot_time changes only with such a call; two successive  *)
(* periodic calls are 300 s or more apart.                                *)
C7_ChartTimer ==
    [][ /\ (pc = "plot_check" /\ pc' # "except")
             => /\ pc' \in {"plot", "sleep"}
                /\ pc' = "plot" <=> now - LastInvocation >= 300
        /\ (pc = "plot" /\ pc' # "except")
             => /\ plot_times' = Append(plot_times, now)
                /\ now - LastInvocation >= 300
        /\ plot_times' # plot_times => pc = "plot"
        /\ last_plot_time' # last_plot_time
             => pc = "plot" /\ last_plot_time' = now
        /\ (pc = "plot" /\ pc' = "sleep") => last_plot_time' = now
      ]_vars

(* Two periodic calls although no fetch for the value ever gave data *)
C7_Witness ==
    /\ Len(plot_times) = 2
    /\ equity_history = <<>>
    /\ evicted = 0

(* A step in which plot_account_value is called, by the timer or by the   *)
(* except branch                                                          *)
RenderStep ==
    \/ pc = "plot" /\ pc' # "except"
    \/ pc = "except" /\ final_renders' = final_renders + 1

Conforming(a) == Len(a) = 42 /\ a[1] = "0" /\ a[2] = "x"

GotData(r) ==
    r.kind = "json" /\ "error" \notin DOMAIN r.body /\ DOMAIN r.body # {}

(* C9: the loop is entered only with a non-empty address that has the     *)
(* format or was confirmed with y, and after a connection test that gave  *)
(* data; only an empty address is turned down without the question; a     *)
(* failed test ends the program with no iteration run and no sample.      *)
C9_LoopEntry ==
    [][ /\ (tick = 0 /\ tick' = 1)
             => /\ pc = "connected"
                /\ account_address # <<>>
                /\ Conforming(account_address)
                     \/ answer \in {<<"y">>, <<"Y">>}
                /\ GotData(response)
        /\ (pc = "main" /\ pc' = "exited") => account_address' = <<>>
        /\ (pc = "main" /\ account_address' # <<>>
                        /\ ~Conforming(account_address')) => pc' = "confirm"
        /\ (pc = "test_connection" /\ ~GotData(response')) => pc' = "exited"
        /\ pc' = "exited" => tick' = 0 /\ equity_history' = <<>>
        /\ pc # "exited" ]_vars

(* The loop runs for an address of the wrong format, confirmed *)
C9_Witness ==
    /\ tick >= 1
    /\ account_address # <<>>
    /\ ~Conforming(account_address)

RawSize(e) == ParseFloat(e.position.szi).v

OpenEntries(raw) == {i \in 1..Len(raw) : RawSize(raw[i]) # 0}

(* C10: get_positions returns one record per entry of non-zero size, in   *)
(* the order of the entries, with size |s| > 0 and direction LONG exactly *)
(* when s > 0, SHORT otherwise.                                           *)
C10_PositionsFromEntries ==
    (pc = "fetch_value" /\ ~Falsy(data) /\ "assetPositions" \in DOMAIN data.d)
      => LET raw == data.d.assetPositions
             open == OpenEntries(raw)
         IN  /\ Len(positions) = Cardinality(open)
             /\ \A k \in 1..Len(positions) :
                  LET e == raw[Kth(open, k)]
                      s == RawSize(e)
                  IN  /\ positions[k].symbol = e.position.coin
                      /\ positions[k].size = IF s < 0 THEN 0 - s ELSE s
                      /\ positions[k].size > 0
                      /\ positions[k].direction \in {"LONG", "SHORT"}
                      /\ positions[k].direction = "LONG" <=> s > 0

(* A long and a short position extracted from four entries, two of size 0 *)
C10_Witness ==
    /\ pc = "fetch_value"
    /\ ~Falsy(data)
    /\ "assetPositions" \in DOMAIN data.d
    /\ Len(data.d.assetPositions) = 4
    /\ Len(positions) = 2
    /\ positions[1].direction = "LONG"
    /\ positions[2].direction = "SHORT"

(* The account value a reply reports, 0 where it reports none *)
ReportedValue(d) ==
    IF "marginSummary" \in DOMAIN d /\ "accountValue" \in DOMAIN d.marginSummary
    THEN ParseFloat(d.marginSummary.accountValue).v
    ELSE 0

AllInWindow(history, t) ==
    \A i \in 1..Len(history) : history[i].timestamp > t - 604800

(* C11: the history changes only where get_account_value appends and      *)
(* prunes; an append puts the value fetched in this iteration, stamped    *)
(* with the time of the fetch, behind the older samples; a prune of       *)
(* samples that are all inside the window keeps them all; and a chart     *)
(* that is written shows the last value as latest and, as change, the     *)
(* percentage (last - first) / first * 100 rounded to two decimals, 0     *)
(* when the first value is 0.                                             *)
C11_HistoryAndChange ==
    [][ /\ equity_history' # equity_history => pc \in {"append", "prune"}
        /\ (pc = "append" /\ pc' = "prune")
             => equity_history' = equity_history \o
                  <<[timestamp |-> now, value |-> ReportedValue(data.d)]>>
        /\ (pc = "prune" /\ pc' = "show" /\ AllInWindow(equity_history, now))
             => equity_history' = equity_history
        /\ artifacts' # artifacts
             => LET chart == artifacts'[Len(artifacts')]
                    first == equity_history[1].value
                    last == equity_history[Len(equity_history)].value
                IN  /\ chart.latest = last
                    /\ first = 0 => chart.change = 0
                    /\ first # 0 =>
                         2 * Abs(chart.change * first - (last - first) * 10000)
                           <= Abs(first)
      ]_vars

(* 1000, 1050 and 900 fetched ten seconds apart from the start of the     *)
(* loop, then Ctrl+C: the chart shows 900 and a change of -10.00%         *)
C11_Witness ==
    /\ pc = "stopped"
    /\ equity_history = <<[timestamp |-> StartupDelay, value |-> 100000],
                          [timestamp |-> StartupDelay + 10, value |-> 105000],
                          [timestamp |-> StartupDelay + 20, value |-> 90000]>>
    /\ evicted = 0
    /\ Len(artifacts) = 1
    /\ artifacts[1].latest = 90000
    /\ artifacts[1].change = 0 - 1000

(* C12: no two chart files written in one run of the monitor have the     *)
(* same name.                                                             *)
C12_ArtifactNamesDiffer ==
    \A i, j \in 1..Len(artifacts) :
        i # j => artifacts[i].name # artifacts[j].name

C14_OneSampleIfFetched ==
    [][ (pc = "append" /\ pc' # "except")
          => IF Falsy(data)
             THEN pc' = "show" /\ equity_history' = equity_history
             ELSE /\ pc' = "prune"
                  /\ Len(equity_history') = Len(equity_history) + 1
                  /\ SubSeq(equity_history', 1, Len(equity_history))
                       = equity_history
      ]_vars

(* C15: in every state the timestamps of equity_history do not decrease   *)
(* from the first sample to the last, and none is later than the clock:   *)
(* the samples stand in the order in which their fetches completed.       *)
C15_TimestampsOrdered ==
    /\ \A i, j \in 1..Len(equity_history) :
         i < j => equity_history[i].timestamp <= equity_history[j].timestamp
    /\ \A i \in 1..Len(equity_history) : equity_history[i].timestamp <= now

(* Two samples are held in order after an older one was evicted *)
C15_Witness ==
    /\ Len(equity_history) = 2
    /\ evicted = 1
    /\ pc = "show"

(* C16 as stated: once get_account_value has appended and pruned, the     *)
(* history holds at most seven days / update_interval samples.            *)
C16_LengthWithinQuotient ==
    pc = "show" => Len(equity_history) * interval <= 604800

(* C16: consecutive samples are update_interval or more apart, one tick   *)
(* appending one sample at most, and while the loop runs the history,     *)
(* once the eviction that follows an append is done, holds fewer than     *)
(* seven days / update_interval + 1 samples, that is at most the quotient *)
(* rounded up.                                                            *)
C16_LengthWithinQuotientRoundedUp ==
    /\ \A i \in 1..(Len(equity_history) - 1) :
         equity_history[i + 1].timestamp - equity_history[i].timestamp
           >= interval
    /\ pc \in LoopPcs \ {"prune"}
         => (Len(equity_history) - 1) * interval < 604800

(* Polling every 400000 s: two samples are held, more than 604800/400000  *)
C16_Witness ==
    /\ pc = "show"
    /\ interval = 400000
    /\ Len(equity_history) = 2
    /\ evicted = 1

(* C17: a render reads a history on which the eviction that follows the   *)
(* most recent append has run: no sample it reads is seven days or more   *)
(* older than the last one, also when Ctrl+C has cut an iteration short.  *)
C17_RenderSeesPrunedHistory ==
    (pc \in {"plot", "except"} /\ equity_history # <<>>)
      => \A i \in 1..Len(equity_history) :
           equity_history[i].timestamp
             > equity_history[Len(equity_history)].timestamp - 604800

(* C18: when a render draws a chart, every sample it reads was taken      *)
(* within the seven days before the render.                               *)
C18_ChartSpansSevenDays ==
    (pc \in {"plot", "except"} /\ Len(equity_history) >= 2)
      => \A i \in 1..Len(equity_history) :
           equity_history[i].timestamp > now - 604800

(* C19: when an iteration shows its output, the positions shown are those *)
(* of the reply the account value was taken from, and none when that      *)
(* fetch gave no data.                                                    *)
C19_OneSnapshotPerTick ==
    pc = "show" => positions = get_positions(data).val

(* C20: a sample is appended only for a reply that reports an account     *)
(* value, marginSummary.accountValue.                                     *)
C20_SampleValueWasReported ==
    pc = "prune"
      => /\ "marginSummary" \in DOMAIN data.d
         /\ "accountValue" \in DOMAIN data.d.marginSummary

====
